---- MODULE Spec2Model ----
(***************************************************************************)
(* SDP3x driver (Sensirion SDP31 / SDP32 differential pressure sensors on  *)
(* I2C): the command writer, the word reader with its CRC-8 check, the     *)
(* measurement and product-ID accessors and the model detection, as state  *)
(* machines over the driver object and the Wire bus it talks to.           *)
(*                                                                         *)
(* The driver modelled is the current one, src/unnamed/part_000 lines      *)
(* 310-601 (writeCommand, readData, begin, ...), with the class and the    *)
(* tables of src/src/SDP3x.h lines 237-407.                                *)
(***************************************************************************)
EXTENDS Integers, Sequences, FiniteSets, TLC

VARIABLES
    addr,      \* SDP3x::addr, the I2C address given to the constructor
    comp,      \* SDP3x::comp, the temperature compensation mode
    number,    \* SDP3x::number, the detected model
    buffer,    \* SDP3x::buffer[13], the scratch buffer of readData
    phase,     \* "idle": no call in progress; "returned": a call just returned
    op,        \* the call that just returned, with its arguments
    wire,      \* the Wire calls that call made, in order
    acks,      \* what the bus answered to each command write of that call
    ret,       \* the value that call returned
    slot0,     \* the caller's output variables before that call
    slot,      \* the caller's output variables after that call
    sent,      \* the bytes the sensor put on the bus for that call's read
    cor,       \* what the bus did to them: bytes delivered, flipped bits
    rx,        \* the bytes Wire.read handed to the driver, in order
    loc,       \* readData as that call ran it: its argument, the CRC it computed
               \* for each word, whether next left the buffer, its return value
    idScale,   \* the pressure scale as of the first begin() that returned true,
               \* 0 while no begin() has returned true
    pc,        \* how many calls of its script a scripted caller has made; 0 for
               \* a caller that makes any call at any time
    calls,     \* for the main loop and for an interrupt callback that call
               \* readMeasurement on the same instance: where the call stands
               \* and its local variables
    rxBuffer   \* the bytes Wire holds of the last requestFrom, not yet read

vars == <<addr, comp, number, buffer, phase, op, wire, acks, ret, slot0, slot, sent, cor,
          rx, loc, idScale, pc, calls, rxBuffer>>

driver == <<addr, comp, number, buffer>>

(***************************************************************************)
(* Bytes and bit operations (uint8_t arithmetic of the source).            *)
(***************************************************************************)
Byte == 0..255

RECURSIVE BitXor(_, _, _)
BitXor(a, b, n) ==
    IF n = 0 THEN 0
    ELSE ((a + b) % 2) + 2 * BitXor(a \div 2, b \div 2, n - 1)

RECURSIVE BitOr(_, _, _)
BitOr(a, b, n) ==
    IF n = 0 THEN 0
    ELSE (IF (a % 2) + (b % 2) > 0 THEN 1 ELSE 0) + 2 * BitOr(a \div 2, b \div 2, n - 1)

\* exclusive or of two 4-bit values, tabulated once
XorNibble == [a \in 0..15 |-> [b \in 0..15 |-> BitXor(a, b, 4)]]

\* crc ^ *next on uint8_t operands
Xor8(a, b) == 16 * XorNibble[a \div 16][b \div 16] + XorNibble[a % 16][b % 16]

(***************************************************************************)
(* Constants of the header.                                                *)
(***************************************************************************)
Address1 == 33
Address2 == 34
Address3 == 35
Addresses == {Address1, Address2, Address3}

StartContMassFlowAvg     == <<54, 3>>
StartContMassFlow        == <<54, 8>>
StartContDiffPressureAvg == <<54, 21>>
StartContDiffPressure    == <<54, 30>>
StopCont                 == <<63, 249>>
TrigMassFlow             == <<54, 36>>
TrigMassFlowStretch      == <<55, 38>>
TrigDiffPressure         == <<54, 47>>
TrigDiffPressureStretch  == <<55, 45>>
ReadInfo1                == <<54, 124>>
ReadInfo2                == <<225, 2>>
SoftReset                == <<0, 6>>

TempCompensation == {"MassFlow", "DiffPressure"}

\* enum Model { SDP31, SDP32 }; "Other" is any other content of the field
Model == {"SDP31", "SDP32", "Other"}

\* 32-bit product identifiers, as their four bytes, most significant first
SDP31_PID == <<3, 1, 1, 136>>
SDP32_PID == <<3, 1, 2, 136>>
SDP31_DiffScale == 60
SDP32_DiffScale == 240
SDP3X_TempScale == 200

\* uint8_t buffer[13]
BufferSize == 13
BufferIndex == 0..(BufferSize - 1)

\* CRC-8 lookup table, CRC_LUT[256]; entry i is CRC_LUT[i + 1] here
CRC_LUT == <<
      0,  49,  98,  83, 196, 245, 166, 151, 185, 136, 219, 234, 125,  76,  31,  46,
     67, 114,  33,  16, 135, 182, 229, 212, 250, 203, 152, 169,  62,  15,  92, 109,
    134, 183, 228, 213,  66, 115,  32,  17,  63,  14,  93, 108, 251, 202, 153, 168,
    197, 244, 167, 150,   1,  48,  99,  82, 124,  77,  30,  47, 184, 137, 218, 235,
     61,  12,  95, 110, 249, 200, 155, 170, 132, 181, 230, 215,  64, 113,  34,  19,
    126,  79,  28,  45, 186, 139, 216, 233, 199, 246, 165, 148,   3,  50,  97,  80,
    187, 138, 217, 232, 127,  78,  29,  44,   2,  51,  96,  81, 198, 247, 164, 149,
    248, 201, 154, 171,  60,  13,  94, 111,  65, 112,  35,  18, 133, 180, 231, 214,
    122,  75,  24,  41, 190, 143, 220, 237, 195, 242, 161, 144,   7,  54, 101,  84,
     57,   8,  91, 106, 253, 204, 159, 174, 128, 177, 226, 211,  68, 117,  38,  23,
    252, 205, 158, 175,  56,   9,  90, 107,  69, 116,  39,  22, 129, 176, 227, 210,
    191, 142, 221, 236, 123,  74,  25,  40,   6,  55, 100,  85, 194, 243, 160, 145,
     71, 118,  37,  20, 131, 178, 225, 208, 254, 207, 156, 173,  58,  11,  88, 105,
      4,  53, 102,  87, 192, 241, 162, 147, 189, 140, 223, 238, 121,  72,  27,  42,
    193, 240, 163, 146,   5,  52, 103,  86, 120,  73,  26,  43, 188, 141, 222, 239,
    130, 179, 224, 209,  70, 119,  36,  21,  59,  10,  89, 104, 255, 206, 157, 172
>>

\* fault: the last entry of the table mistyped (0xAD for 0xAC)
LutTypo(i) == IF i = 255 THEN 173 ELSE CRC_LUT[i + 1]

LUT(i) == CRC_LUT[i + 1]

(***************************************************************************)
(* The CRC-8 the table is documented to implement, computed bit by bit:    *)
(* polynomial 0x31, initial value 0xFF, no reflection, no final XOR.  It   *)
(* is what the sensor appends to each word.                                *)
(***************************************************************************)
CRC_POLY == 49
CRC_INIT == 255

RECURSIVE Crc8Shift(_, _)
Crc8Shift(c, n) ==
    IF n = 0 THEN c
    ELSE Crc8Shift(IF c >= 128 THEN Xor8((c * 2) % 256, CRC_POLY) ELSE (c * 2) % 256, n - 1)

\* the eight shifts of every byte value, tabulated once
BitwiseStep == [c \in Byte |-> Crc8Shift(c, 8)]

Crc8Byte(crc, b) == BitwiseStep[Xor8(crc, b)]

SensorCRC(hi, lo) == Crc8Byte(Crc8Byte(CRC_INIT, hi), lo)

(***************************************************************************)
(* The Wire bus: the calls the driver makes, as entries of the log `wire`. *)
(***************************************************************************)
BeginTransmission(a) == [call |-> "beginTransmission", addr |-> a, data |-> <<>>, count |-> 0]
Write(bytes)         == [call |-> "write", addr |-> 0, data |-> bytes, count |-> Len(bytes)]
EndTransmission      == [call |-> "endTransmission", addr |-> 0, data |-> <<>>, count |-> 0]
RequestFrom(a, n)    == [call |-> "requestFrom", addr |-> a, data |-> <<>>, count |-> n]
Read                 == [call |-> "read", addr |-> 0, data |-> <<>>, count |-> 0]

\* Wire.endTransmission(): 0 success, 1 data too long, 2 NACK on address,
\* 3 NACK on data, 4 other error
StatusCodes == 0..4

\* what the bus answers to one command write: bytes accepted by Wire.write
\* and the status of Wire.endTransmission
WriteOutcomes == [written : 0..2, status : StatusCodes]

(***************************************************************************)
(* writeCommand: one transaction to this->addr carrying the two bytes.     *)
(***************************************************************************)
\* fault: the status of endTransmission dropped, as in the first draft of
\* the function (src/unnamed/part_000 lines 32-38)
writeCommandNoStatus(cmd, written, status) ==
    [ wire |-> <<BeginTransmission(addr), Write(cmd), EndTransmission>>,
      ok   |-> written = 2 ]

\* fault: the transaction left open when Wire.write took fewer than 2 bytes
writeCommandLeftOpen(cmd, written, status) ==
    [ wire |-> IF written = 2
               THEN <<BeginTransmission(addr), Write(cmd), EndTransmission>>
               ELSE <<BeginTransmission(addr), Write(cmd)>>,
      ok   |-> (status = 0) /\ (written = 2) ]

writeCommand(cmd, written, status) ==
    [ wire |-> <<BeginTransmission(addr), Write(cmd), EndTransmission>>,
      ok   |-> (status = 0) /\ (written = 2) ]

(***************************************************************************)
(* readData.  k is what Wire.requestFrom returned, rxb the bytes the k     *)
(* calls of Wire.read return, buf the buffer on entry.                     *)
(***************************************************************************)
\* fault: the buffer not cleared
clearBufferNot(buf) == buf

\* for (next = &this->buffer[12]; next > this->buffer; next--) *next = 0;
clearBuffer(buf) == [i \in BufferIndex |-> IF i >= 1 THEN 0 ELSE buf[i]]

\* (uint8_t)(words * 3), the count handed to Wire.requestFrom
requestCount(words) == (words * 3) % 256

\* fault: the check of the first draft, !(crc & *next == *next), which
\* parses as crc & 1 (src/unnamed/part_000 line 75)
crcCheckDraft(crc, b) == (crc % 2) = 1

\* success = success && (crc == *next)
crcCheck(crc, b) == crc = b

\* fault: the running CRC left out of the table index
crcUpdateNoXor(crc, b) == LUT(b)

\* crc = CRC_LUT[crc ^ *next]
crcUpdate(crc, b) == LUT(Xor8(crc, b))

\* fault: the CRC not set back to 0xFF after a check, as in the first
\* draft of the loop (src/unnamed/part_000 lines 68-83)
readStepNoReset(read, b, st) ==
    LET inside == st.next \in BufferIndex
        stored == IF inside THEN [st.buffer EXCEPT ![st.next] = b] ELSE st.buffer
        seen   == [st EXCEPT !.buffer = stored, !.oob = st.oob \/ ~inside,
                             !.reads = st.reads + 1]
    IN  IF (read % 3) = 1
        THEN [seen EXCEPT !.ok   = st.ok /\ crcCheck(st.crc, b),
                          !.crcs = Append(st.crcs, st.crc)]
        ELSE [seen EXCEPT !.crc  = crcUpdate(st.crc, b),
                          !.next = st.next + 1]

\* fault: next advanced after the CRC byte as well
readStepAlwaysAdvance(read, b, st) ==
    LET inside == st.next \in BufferIndex
        stored == IF inside THEN [st.buffer EXCEPT ![st.next] = b] ELSE st.buffer
        seen   == [st EXCEPT !.buffer = stored, !.oob = st.oob \/ ~inside,
                             !.reads = st.reads + 1, !.next = st.next + 1]
    IN  IF (read % 3) = 1
        THEN [seen EXCEPT !.ok   = st.ok /\ crcCheck(st.crc, b),
                          !.crcs = Append(st.crcs, st.crc),
                          !.crc  = 255]
        ELSE [seen EXCEPT !.crc  = crcUpdate(st.crc, b)]

\* one turn of the loop "for (; read > 0; read--)", b being what Wire.read
\* returned; st holds next, crc, success, the buffer, the CRC computed for
\* each word checked, whether next left the buffer, and the calls of
\* Wire.read made
readStep(read, b, st) ==
    LET inside == st.next \in BufferIndex
        stored == IF inside THEN [st.buffer EXCEPT ![st.next] = b] ELSE st.buffer
        seen   == [st EXCEPT !.buffer = stored, !.oob = st.oob \/ ~inside,
                             !.reads = st.reads + 1]
    IN  IF (read % 3) = 1
        THEN [seen EXCEPT !.ok   = st.ok /\ crcCheck(st.crc, b),
                          !.crcs = Append(st.crcs, st.crc),
                          !.crc  = 255]
        ELSE [seen EXCEPT !.crc  = crcUpdate(st.crc, b),
                          !.next = st.next + 1]

RECURSIVE readLoop(_, _, _)
readLoop(read, rxb, st) ==
    IF read = 0 THEN st
    ELSE readLoop(read - 1, rxb, readStep(read, rxb[Len(rxb) - read + 1], st))

\* readData up to the loop: the buffer cleared, the request made and
\* answered with k bytes
readStart(words, k, buf) ==
    [ next   |-> 0,
      crc    |-> 255,
      ok     |-> (k = 3 * words),
      buffer |-> clearBuffer(buf),
      crcs   |-> <<>>,
      oob    |-> FALSE,
      reads  |-> 0 ]

\* fault: the comparison of the byte count with 3 * words left out
readDataAnyCount(words, k, rxb, buf) ==
    LET end == readLoop(k, rxb, [readStart(words, k, buf) EXCEPT !.ok = TRUE])
    IN  [ ok     |-> end.ok,
          buffer |-> end.buffer,
          wire   |-> <<RequestFrom(addr, requestCount(words))>>
                         \o [i \in 1..end.reads |-> Read],
          loc    |-> [words |-> words, crcs |-> end.crcs, oob |-> end.oob, ok |-> end.ok] ]

\* fault: return false at once when the byte count is not 3 * words
readDataEarlyReturn(words, k, rxb, buf) ==
    LET start == readStart(words, k, buf)
        end   == IF start.ok THEN readLoop(k, rxb, start) ELSE start
    IN  [ ok     |-> end.ok,
          buffer |-> end.buffer,
          wire   |-> <<RequestFrom(addr, requestCount(words))>>
                         \o [i \in 1..end.reads |-> Read],
          loc    |-> [words |-> words, crcs |-> end.crcs, oob |-> end.oob, ok |-> end.ok] ]

readData(words, k, rxb, buf) ==
    LET end == readLoop(k, rxb, readStart(words, k, buf))
    IN  [ ok     |-> end.ok,
          buffer |-> end.buffer,
          wire   |-> <<RequestFrom(addr, requestCount(words))>>
                         \o [i \in 1..end.reads |-> Read],
          loc    |-> [words |-> words, crcs |-> end.crcs, oob |-> end.oob, ok |-> end.ok] ]

(***************************************************************************)
(* Output variables of the caller.  pressure, temp and scale are int16_t;  *)
(* pid (uint32_t) and serial (uint64_t) are kept as their bytes, most      *)
(* significant first, so that no width is lost.                            *)
(***************************************************************************)
ToUint16(x) == x % 65536
ToInt16(u)  == IF u >= 32768 THEN u - 65536 ELSE u

\* fault: *p |= (int16_t)b without the shift
shlOr16NoShift(x, b) == ToInt16(BitOr(ToUint16(x), b, 16))

\* *p <<= 8; *p |= (int16_t)b;   on an int16_t
shlOr16(x, b) == ToInt16(BitOr((ToUint16(x) * 256) % 65536, b, 16))

\* fault: the shift left out, every byte or-ed into the lowest one
shlOrBytesNoShift(x, b) == [x EXCEPT ![Len(x)] = BitOr(@, b, 8)]

\* *p <<= 8; *p |= b;   on a uint32_t or uint64_t held as bytes
shlOrBytes(x, b) == Append(Tail(x), BitOr(0, b, 8))

RECURSIVE unpackBytes(_, _, _, _)
unpackBytes(x, buf, from, n) ==
    IF n = 0 THEN x
    ELSE unpackBytes(shlOrBytes(x, buf[from]), buf, from + 1, n - 1)

\* the big-endian value of two bytes, as an int16_t
BigEndian16(hi, lo) == ToInt16(hi * 256 + lo)

(***************************************************************************)
(* readMeasurement.  pressure, temp, scale: whether the pointer is given.  *)
(***************************************************************************)
\* fault: the two tests in the other order
measurementWordsTempFirst(temp, scale) == IF temp THEN 2 ELSE IF scale THEN 3 ELSE 1

measurementWords(temp, scale) == IF scale THEN 3 ELSE IF temp THEN 2 ELSE 1

\* fault: the unpacking of the first draft, *p = (uint16_t) *(buffer + n),
\* which takes one byte (src/unnamed/part_000 lines 195-208)
unpackMeasurementDraft(words, pressure, temp, scale, slots, buf) ==
    LET s3 == IF words = 3 /\ scale THEN [slots EXCEPT !.scale = buf[4]] ELSE slots
        s2 == IF words >= 2 /\ temp THEN [s3 EXCEPT !.temp = buf[2]] ELSE s3
    IN  IF pressure THEN [s2 EXCEPT !.pressure = buf[0]] ELSE s2

unpackMeasurement(words, pressure, temp, scale, slots, buf) ==
    LET s3 == IF words = 3 /\ scale
              THEN [slots EXCEPT !.scale = shlOr16(shlOr16(@, buf[4]), buf[5])]
              ELSE slots
        s2 == IF words >= 2 /\ temp
              THEN [s3 EXCEPT !.temp = shlOr16(shlOr16(@, buf[2]), buf[3])]
              ELSE s3
    IN  IF pressure
        THEN [s2 EXCEPT !.pressure = shlOr16(shlOr16(@, buf[0]), buf[1])]
        ELSE s2

\* fault: no return after a failed readData
readMeasurementNoReturn(pressure, temp, scale, slots, k, rxb, buf) ==
    LET words == measurementWords(temp, scale)
        rd    == readData(words, k, rxb, buf)
    IN  [ ok     |-> rd.ok,
          slots  |-> unpackMeasurement(words, pressure, temp, scale, slots, rd.buffer),
          buffer |-> rd.buffer,
          wire   |-> rd.wire,
          loc    |-> rd.loc ]

readMeasurement(pressure, temp, scale, slots, k, rxb, buf) ==
    LET words == measurementWords(temp, scale)
        rd    == readData(words, k, rxb, buf)
    IN  [ ok     |-> rd.ok,
          slots  |-> IF rd.ok
                     THEN unpackMeasurement(words, pressure, temp, scale, slots, rd.buffer)
                     ELSE slots,
          buffer |-> rd.buffer,
          wire   |-> rd.wire,
          loc    |-> rd.loc ]

(***************************************************************************)
(* readProductID.  w1, w2: what the bus answers to the two command writes. *)
(***************************************************************************)
\* fault: four words with the serial, as in the version before
\* (src/src/SDP3x.h lines 649-652 and 669)
productWordsFour(serial) == IF serial THEN 4 ELSE 2

productWords(serial) == IF serial THEN 6 ELSE 2

\* fault: the product identifier taken from the bytes after the first word
unpackProductIDOffset(words, pid, serial, slots, buf) ==
    LET s1 == IF words = 6 /\ serial
              THEN [slots EXCEPT !.serial = unpackBytes(@, buf, 4, 8)]
              ELSE slots
    IN  IF pid
        THEN [s1 EXCEPT !.pid = unpackBytes(@, buf, 2, 4)]
        ELSE s1

unpackProductID(words, pid, serial, slots, buf) ==
    LET s1 == IF words = 6 /\ serial
              THEN [slots EXCEPT !.serial = unpackBytes(@, buf, 4, 8)]
              ELSE slots
    IN  IF pid
        THEN [s1 EXCEPT !.pid = unpackBytes(@, buf, 0, 4)]
        ELSE s1

\* readData was not called
NoLoc == [words |-> 0, crcs |-> <<>>, oob |-> FALSE, ok |-> FALSE]

\* fault: the results of the two command writes not looked at
readProductIDNoAbort(pid, serial, slots, w1, w2, k, rxb, buf) ==
    LET words  == productWords(serial)
        first  == writeCommand(ReadInfo1, w1.written, w1.status)
        second == writeCommand(ReadInfo2, w2.written, w2.status)
        rd     == readData(words, k, rxb, buf)
    IN  [ok     |-> rd.ok,
         slots  |-> IF rd.ok
                    THEN unpackProductID(words, pid, serial, slots, rd.buffer)
                    ELSE slots,
         buffer |-> rd.buffer,
         wire   |-> first.wire \o second.wire \o rd.wire,
         loc    |-> rd.loc,
         step   |-> 3,
         acks   |-> <<w1, w2>>]

readProductID(pid, serial, slots, w1, w2, k, rxb, buf) ==
    LET words  == productWords(serial)
        first  == writeCommand(ReadInfo1, w1.written, w1.status)
        second == writeCommand(ReadInfo2, w2.written, w2.status)
        rd     == readData(words, k, rxb, buf)
    IN  IF ~first.ok
        THEN [ok |-> FALSE, slots |-> slots, buffer |-> buf, wire |-> first.wire,
              loc |-> NoLoc, step |-> 1, acks |-> <<w1>>]
        ELSE IF ~second.ok
        THEN [ok |-> FALSE, slots |-> slots, buffer |-> buf,
              wire |-> first.wire \o second.wire, loc |-> NoLoc, step |-> 2,
              acks |-> <<w1, w2>>]
        ELSE [ok     |-> rd.ok,
              slots  |-> IF rd.ok
                         THEN unpackProductID(words, pid, serial, slots, rd.buffer)
                         ELSE slots,
              buffer |-> rd.buffer,
              wire   |-> first.wire \o second.wire \o rd.wire,
              loc    |-> rd.loc,
              step   |-> 3,
              acks   |-> <<w1, w2>>]

(***************************************************************************)
(* begin: reads the product ID into a local and sets the model.            *)
(***************************************************************************)
\* fault: the default branch of the switch returning true
modelOfAny(modelNumber, old) ==
    IF modelNumber = SDP31_PID THEN [ok |-> TRUE, number |-> "SDP31"]
    ELSE IF modelNumber = SDP32_PID THEN [ok |-> TRUE, number |-> "SDP32"]
    ELSE [ok |-> TRUE, number |-> old]

modelOf(modelNumber, old) ==
    IF modelNumber = SDP31_PID THEN [ok |-> TRUE, number |-> "SDP31"]
    ELSE IF modelNumber = SDP32_PID THEN [ok |-> TRUE, number |-> "SDP32"]
    ELSE [ok |-> FALSE, number |-> old]

\* fault: the model recognised but not stored
beginNoStore(slots, w1, w2, k, rxb, buf) ==
    LET id == readProductID(TRUE, FALSE, slots, w1, w2, k, rxb, buf)
        m  == modelOf(id.slots.pid, number)
    IN  [ ok     |-> id.ok /\ m.ok,
          number |-> number,
          buffer |-> id.buffer,
          wire   |-> id.wire,
          loc    |-> id.loc,
          step   |-> id.step,
          acks   |-> id.acks ]

\* fault: the model forgotten when the identification fails
beginForgets(slots, w1, w2, k, rxb, buf) ==
    LET id == readProductID(TRUE, FALSE, slots, w1, w2, k, rxb, buf)
        m  == modelOf(id.slots.pid, number)
    IN  [ ok     |-> id.ok /\ m.ok,
          number |-> IF id.ok /\ m.ok THEN m.number ELSE "Other",
          buffer |-> id.buffer,
          wire   |-> id.wire,
          loc    |-> id.loc,
          step   |-> id.step,
          acks   |-> id.acks ]

begin(slots, w1, w2, k, rxb, buf) ==
    LET id == readProductID(TRUE, FALSE, slots, w1, w2, k, rxb, buf)
        m  == modelOf(id.slots.pid, number)
    IN  [ ok     |-> id.ok /\ m.ok,
          number |-> IF id.ok THEN m.number ELSE number,
          buffer |-> id.buffer,
          wire   |-> id.wire,
          loc    |-> id.loc,
          step   |-> id.step,
          acks   |-> id.acks ]

(***************************************************************************)
(* The mode commands, reset and the scale accessors.                       *)
(***************************************************************************)
startContinuousCmd(c, averaging) ==
    CASE c = "MassFlow"     -> IF averaging THEN StartContMassFlowAvg ELSE StartContMassFlow
      [] c = "DiffPressure" -> IF averaging THEN StartContDiffPressureAvg
                                            ELSE StartContDiffPressure
      [] OTHER              -> <<>>

\* fault: the two branches on stretching exchanged
triggerMeasurementCmdSwapped(c, stretching) ==
    CASE c = "MassFlow"     -> IF stretching THEN TrigMassFlow ELSE TrigMassFlowStretch
      [] c = "DiffPressure" -> IF stretching THEN TrigDiffPressure
                                             ELSE TrigDiffPressureStretch
      [] OTHER              -> <<>>

triggerMeasurementCmd(c, stretching) ==
    CASE c = "MassFlow"     -> IF stretching THEN TrigMassFlowStretch ELSE TrigMassFlow
      [] c = "DiffPressure" -> IF stretching THEN TrigDiffPressureStretch
                                             ELSE TrigDiffPressure
      [] OTHER              -> <<>>

\* fault: a refused command written a second time
modeCommandRetry(cmd, written, status) ==
    LET w == writeCommand(cmd, written, status)
    IN  IF w.ok THEN w ELSE [wire |-> w.wire \o w.wire, ok |-> w.ok]

\* the switch of startContinuous / triggerMeasurement around its command
modeCommand(cmd, written, status) ==
    IF cmd = <<>> THEN [wire |-> <<>>, ok |-> FALSE]
    ELSE writeCommand(cmd, written, status)

\* fault: reset as in the version before, return WriteCommand(SoftReset)
\* (src/src/SDP3x.h lines 696-698)
resetAsCommand(written, status) ==
    [ wire |-> <<BeginTransmission(addr), Write(SoftReset), EndTransmission>>,
      ok   |-> (status = 0) /\ (written = 2) ]

\* reset: Wire.beginTransmission(SoftReset[0]); Wire.write(SoftReset[1]);
reset(written, status) ==
    [ wire |-> <<BeginTransmission(SoftReset[1]), Write(<<SoftReset[2]>>), EndTransmission>>,
      ok   |-> (written = 1) /\ (status = 0) ]

getPressureScale(n) ==
    CASE n = "SDP31" -> SDP31_DiffScale
      [] n = "SDP32" -> SDP32_DiffScale
      [] OTHER       -> 1

\* fault: the temperature scale following the model
getTemperatureScaleOfModel == IF number = "SDP32" THEN SDP32_DiffScale ELSE SDP3X_TempScale

getTemperatureScale == SDP3X_TempScale

(***************************************************************************)
(* The sensor and the bus between it and the driver.                       *)
(*                                                                         *)
(* The sensor answers a read with words of two payload bytes, each         *)
(* followed by the CRC-8 of the two.  The bus hands the driver the first k *)
(* bytes of that stream and may flip bits of one word on the way.          *)
(***************************************************************************)
\* a measurement is three words: pressure, temperature, scale factor
SensorReadings ==
    { << <<18, 52>>,   <<19, 136>>, <<0, 60>>  >>,
      << <<255, 133>>, <<250, 36>>, <<0, 240>> >> }

\* the product information is six words: two of product ID, four of serial
ProductIDs == {SDP31_PID, SDP32_PID, <<3, 1, 3, 136>>}
Serials    == {<<1, 35, 69, 103, 137, 171, 205, 239>>}

InfoWords(id, sn) ==
    << <<id[1], id[2]>>, <<id[3], id[4]>>,
       <<sn[1], sn[2]>>, <<sn[3], sn[4]>>, <<sn[5], sn[6]>>, <<sn[7], sn[8]>> >>

SensorInfos == {InfoWords(id, sn) : id \in ProductIDs, sn \in Serials}

\* the 3 * w bytes the sensor sends for the first w words of a response
Stream(words, w) ==
    [j \in 1..(3 * w) |->
        LET p == words[((j - 1) \div 3) + 1]
        IN  CASE (j - 1) % 3 = 0 -> p[1]
              [] (j - 1) % 3 = 1 -> p[2]
              [] OTHER           -> SensorCRC(p[1], p[2])]

\* bit positions of a word on the wire: 1..8 the first payload byte (1 its
\* lowest bit), 9..16 the second, 17..24 the CRC byte
WordBits == 1..24

RECURSIVE FlipMask(_, _, _)
FlipMask(flips, byte, bit) ==
    IF bit = 8 THEN 0
    ELSE (IF (8 * byte + bit + 1) \in flips THEN 1 ELSE 0) + 2 * FlipMask(flips, byte, bit + 1)

\* what the bus does to a stream: k bytes delivered, the bits `flips` of
\* word `word` inverted (word 0: none)
Deliver(stream, c) ==
    [j \in 1..c.k |->
        IF c.word # 0 /\ ((j - 1) \div 3) + 1 = c.word
        THEN Xor8(stream[j], FlipMask(c.flips, (j - 1) % 3, 0))
        ELSE stream[j]]

Clean(w) == [k |-> 3 * w, word |-> 0, flips |-> {}]
Short(w, j) == [k |-> j, word |-> 0, flips |-> {}]
Flipped(w, i, f) == [k |-> 3 * w, word |-> i, flips |-> f]
NoCor == [k |-> 0, word |-> 0, flips |-> {}]

\* the most bits the bus inverts in one word
MaxFlips == 4

RECURSIVE FlipSets(_)
FlipSets(m) ==
    IF m = 0 THEN {{}}
    ELSE LET prev == FlipSets(m - 1)
         IN  prev \cup {f \cup {b} : f \in prev, b \in WordBits}

\* a few bus behaviours: clean, nothing, one byte short, one word short, one
\* payload bit of the first word inverted, one CRC bit of the last word inverted
LeanCors(w) ==
    {Clean(w), Short(w, 0), Short(w, 3 * w - 1), Short(w, 3 * w - 3),
     Flipped(w, 1, {1}), Flipped(w, w, {24})}

\* every pattern of one to MaxFlips inverted bits of a word
WordErrors == FlipSets(MaxFlips) \ {{}}

\* every short read, and every pattern of at most MaxFlips inverted bits in
\* any one word
RichCors(w) ==
    {Clean(w)} \cup {Short(w, j) : j \in 0..(3 * w - 1)}
               \cup {Flipped(w, i, f) : i \in 1..w, f \in WordErrors}

\* every short read and every single inverted bit
ShortCors(w) ==
    {Clean(w)} \cup {Short(w, j) : j \in 0..(3 * w - 1)}
               \cup {Flipped(w, i, {b}) : i \in 1..w, b \in WordBits}

CorsFor(w, bus) ==
    CASE bus = "rich"  -> RichCors(w)
      [] bus = "short" -> ShortCors(w)
      [] OTHER         -> LeanCors(w)

(***************************************************************************)
(* The caller's output variables before a call.                            *)
(***************************************************************************)
ZeroSlots ==
    [pressure |-> 0, temp |-> 0, scale |-> 0,
     pid |-> <<0, 0, 0, 0>>, serial |-> <<0, 0, 0, 0, 0, 0, 0, 0>>]

UsedSlots ==
    [pressure |-> 23205, temp |-> -1, scale |-> 4660,
     pid |-> <<222, 173, 190, 239>>, serial |-> <<8, 7, 6, 5, 4, 3, 2, 1>>]

CallerSlots == {ZeroSlots, UsedSlots}

Pointers == SUBSET {"pressure", "temp", "scale"}
InfoPointers == SUBSET {"pid", "serial"}

(***************************************************************************)
(* Calls.  Each action is one whole call of a public member function, from *)
(* its entry to its return; Return is the caller going on afterwards.      *)
(***************************************************************************)
NoOp == [name |-> "none", flag |-> FALSE, want |-> {}]

Fresh ==
    /\ op = NoOp /\ wire = <<>> /\ acks = <<>> /\ ret = [ok |-> FALSE, value |-> 0]
    /\ slot0 = ZeroSlots /\ slot = ZeroSlots
    /\ sent = <<>> /\ cor = NoCor /\ rx = <<>> /\ loc = NoLoc

\* the constructor sets addr and comp; number and buffer are left as they are
StaleBytes == {0, 165}

\* who calls the driver when calls overlap
Callers == {"loop", "isr"}

\* the local variables of readData, without the buffer, which is the driver's
local(st) == [st EXCEPT !.buffer = <<>>]

\* no call in progress
NoCall ==
    [ at    |-> "idle",
      temp  |-> FALSE,
      words |-> 0,
      read  |-> 0,
      st    |-> local(readStart(0, 0, [i \in BufferIndex |-> 0])),
      resp  |-> <<>>,
      got   |-> <<>>,
      slots |-> ZeroSlots,
      ok    |-> FALSE,
      mixed |-> FALSE ]

Init ==
    /\ addr \in Addresses
    /\ comp \in TempCompensation
    /\ number \in Model
    /\ buffer \in {[i \in BufferIndex |-> b] : b \in StaleBytes}
    /\ phase = "idle"
    /\ idScale = 0
    /\ pc = 0
    /\ calls = [c \in Callers |-> NoCall]
    /\ rxBuffer = <<>>
    /\ Fresh

Return ==
    /\ phase = "returned"
    /\ phase' = "idle"
    /\ op' = NoOp /\ wire' = <<>> /\ acks' = <<>> /\ ret' = [ok |-> FALSE, value |-> 0]
    /\ slot0' = ZeroSlots /\ slot' = ZeroSlots
    /\ sent' = <<>> /\ cor' = NoCor /\ rx' = <<>> /\ loc' = NoLoc
    /\ UNCHANGED <<driver, idScale, pc, calls, rxBuffer>>

\* a call that only writes a command
Wrote(o, r, w) ==
    /\ phase = "idle"
    /\ phase' = "returned"
    /\ op' = o
    /\ wire' = r.wire
    /\ acks' = IF r.wire = <<>> THEN <<>> ELSE <<w>>
    /\ ret' = [ok |-> r.ok, value |-> 0]
    /\ UNCHANGED <<driver, slot0, slot, sent, cor, rx, loc, idScale, pc, calls, rxBuffer>>

StartContinuous ==
    \E averaging \in BOOLEAN, w \in WriteOutcomes :
        Wrote([name |-> "startContinuous", flag |-> averaging, want |-> {}],
              modeCommand(startContinuousCmd(comp, averaging), w.written, w.status), w)

StopContinuous ==
    \E w \in WriteOutcomes :
        Wrote([name |-> "stopContinuous", flag |-> FALSE, want |-> {}],
              writeCommand(StopCont, w.written, w.status), w)

TriggerMeasurement ==
    \E stretching \in BOOLEAN, w \in WriteOutcomes :
        Wrote([name |-> "triggerMeasurement", flag |-> stretching, want |-> {}],
              modeCommand(triggerMeasurementCmd(comp, stretching), w.written, w.status), w)

\* Wire.write of one byte takes that byte or none
Reset ==
    \E w \in {o \in WriteOutcomes : o.written <= 1} :
        Wrote([name |-> "reset", flag |-> FALSE, want |-> {}],
              reset(w.written, w.status), w)

GetPressureScale ==
    /\ phase = "idle"
    /\ phase' = "returned"
    /\ op' = [name |-> "getPressureScale", flag |-> FALSE, want |-> {}]
    /\ ret' = [ok |-> TRUE, value |-> getPressureScale(number)]
    /\ UNCHANGED <<driver, wire, acks, slot0, slot, sent, cor, rx, loc, idScale, pc, calls, rxBuffer>>

GetTemperatureScale ==
    /\ phase = "idle"
    /\ phase' = "returned"
    /\ op' = [name |-> "getTemperatureScale", flag |-> FALSE, want |-> {}]
    /\ ret' = [ok |-> TRUE, value |-> getTemperatureScale]
    /\ UNCHANGED <<driver, wire, acks, slot0, slot, sent, cor, rx, loc, idScale, pc, calls, rxBuffer>>

\* readMeasurement(pressure, temp, scale) with the pointers `want` given,
\* answered by the sensor's bytes `stream` through the bus behaviour c
MeasurementCall(want, s0, stream, c) ==
    \E rxb \in {Deliver(stream, c)} :
    \E r \in {readMeasurement("pressure" \in want, "temp" \in want, "scale" \in want,
                              s0, c.k, rxb, buffer)} :
        /\ phase = "idle"
        /\ phase' = "returned"
        /\ op' = [name |-> "readMeasurement", flag |-> FALSE, want |-> want]
        /\ wire' = r.wire
        /\ acks' = <<>>
        /\ ret' = [ok |-> r.ok, value |-> 0]
        /\ slot0' = s0
        /\ slot' = r.slots
        /\ sent' = stream
        /\ cor' = c
        /\ rx' = rxb
        /\ loc' = r.loc
        /\ buffer' = r.buffer
        /\ UNCHANGED <<addr, comp, number, idScale, pc, calls, rxBuffer>>

ReadMeasurementOver(wants, slots, readings, bus) ==
    /\ phase = "idle"
    /\ \E want \in wants, words \in readings :
        \E w \in {measurementWords("temp" \in want, "scale" \in want)} :
        \E stream \in {Stream(words, w)} :
        \E c \in CorsFor(w, bus), s0 \in slots :
            MeasurementCall(want, s0, stream, c)

ReadMeasurement == ReadMeasurementOver(Pointers, CallerSlots, SensorReadings, "lean")

\* readProductID(pid, serial) with the pointers `want` given
ProductIDCall(want, s0, stream, w1, w2, c) ==
    \E rxb \in {Deliver(stream, c)} :
    \E r \in {readProductID("pid" \in want, "serial" \in want, s0, w1, w2,
                            c.k, rxb, buffer)} :
    \E read \in {r.step = 3} :
        /\ phase = "idle"
        /\ phase' = "returned"
        /\ op' = [name |-> "readProductID", flag |-> FALSE, want |-> want]
        /\ wire' = r.wire
        /\ acks' = r.acks
        /\ ret' = [ok |-> r.ok, value |-> 0]
        /\ slot0' = s0
        /\ slot' = r.slots
        /\ sent' = IF read THEN stream ELSE <<>>
        /\ cor' = IF read THEN c ELSE NoCor
        /\ rx' = IF read THEN rxb ELSE <<>>
        /\ loc' = r.loc
        /\ buffer' = r.buffer
        /\ UNCHANGED <<addr, comp, number, idScale, pc, calls, rxBuffer>>

\* the answers of the bus to the two command writes of a product-ID read:
\* both accepted, or the first refused, or the second refused (a NACK, a
\* byte short, no byte taken and a bus error)
Accepted == [written |-> 2, status |-> 0]
Refused ==
    {[written |-> 2, status |-> 2], [written |-> 1, status |-> 0], [written |-> 0, status |-> 4]}
WritePairs ==
    {<<Accepted, Accepted>>}
        \cup {<<w, Accepted>> : w \in Refused}
        \cup {<<Accepted, w>> : w \in Refused}

ReadProductIDOver(wants, slots, infos, bus) ==
    /\ phase = "idle"
    /\ \E want \in wants, words \in infos :
        \E w \in {productWords("serial" \in want)} :
        \E stream \in {Stream(words, w)} :
        \E ww \in WritePairs :
        \E c \in IF ww = <<Accepted, Accepted>> THEN CorsFor(w, bus) ELSE {NoCor} :
        \E s0 \in slots :
            ProductIDCall(want, s0, stream, ww[1], ww[2], c)

ReadProductID == ReadProductIDOver(InfoPointers, CallerSlots, SensorInfos, "lean")

\* begin(): the product ID goes to the local modelNumber
Begin ==
    /\ phase = "idle"
    /\ \E words \in SensorInfos :
        \E stream \in {Stream(words, 2)} :
        \E ww \in WritePairs :
        \E c \in IF ww = <<Accepted, Accepted>> THEN LeanCors(2) ELSE {NoCor} :
        \E s0 \in CallerSlots :
            \E rxb \in {Deliver(stream, c)} :
            \E r \in {begin(s0, ww[1], ww[2], c.k, rxb, buffer)} :
            \E read \in {r.step = 3} :
                /\ phase = "idle"
                /\ phase' = "returned"
                /\ op' = [name |-> "begin", flag |-> FALSE, want |-> {}]
                /\ wire' = r.wire
                /\ acks' = r.acks
                /\ ret' = [ok |-> r.ok, value |-> 0]
                /\ slot0' = ZeroSlots
                /\ slot' = ZeroSlots
                /\ sent' = IF read THEN stream ELSE <<>>
                /\ cor' = IF read THEN c ELSE NoCor
                /\ rx' = IF read THEN rxb ELSE <<>>
                /\ loc' = r.loc
                /\ buffer' = r.buffer
                /\ number' = r.number
                /\ idScale' = IF r.ok /\ idScale = 0
                              THEN getPressureScale(r.number) ELSE idScale
                /\ UNCHANGED <<addr, comp, pc, calls, rxBuffer>>

Next ==
    \/ Begin
    \/ StartContinuous
    \/ StopContinuous
    \/ TriggerMeasurement
    \/ ReadMeasurement
    \/ ReadProductID
    \/ Reset
    \/ GetPressureScale
    \/ GetTemperatureScale
    \/ Return

Spec == Init /\ [][Next]_vars

(***************************************************************************)
(* The reads alone, one call on a freshly constructed driver, over every   *)
(* short read and every error pattern of the bus.                          *)
(***************************************************************************)
CodecInit ==
    /\ Init
    /\ addr = Address1 /\ comp = "MassFlow" /\ number = "Other" /\ buffer[0] # 0

CodecReadMeasurement ==
    ReadMeasurementOver({{"pressure"}, {"pressure", "temp"}, {"pressure", "temp", "scale"}},
                        {UsedSlots},
                        {<< <<255, 133>>, <<250, 36>>, <<0, 240>> >>},
                        "rich")

CodecReadProductID ==
    ReadProductIDOver({{"pid"}}, {UsedSlots},
                      {InfoWords(SDP31_PID, sn) : sn \in Serials}, "rich")

CodecReadSerial ==
    ReadProductIDOver({{"pid", "serial"}}, {UsedSlots},
                      {InfoWords(SDP32_PID, sn) : sn \in Serials}, "short")

CodecNext == CodecReadMeasurement \/ CodecReadProductID \/ CodecReadSerial

SpecCodec == CodecInit /\ [][CodecNext]_vars

(***************************************************************************)
(* One word read (readMeasurement with the pressure pointer alone), over   *)
(* every two-byte payload, delivered intact or with one bit of its CRC     *)
(* byte inverted.                                                          *)
(***************************************************************************)
CrcBits == 17..24

RoundTripRead ==
    /\ phase = "idle"
    /\ \E hi \in Byte, lo \in Byte :
        \E stream \in {Stream(<< <<hi, lo>> >>, 1)} :
        \E c \in {Clean(1)} \cup {Flipped(1, 1, {b}) : b \in CrcBits} :
            MeasurementCall({"pressure"}, UsedSlots, stream, c)

SpecRoundTrip == CodecInit /\ [][RoundTripRead]_vars

(***************************************************************************)
(* A scripted caller: a driver constructed with MassFlow; begin() answered *)
(* with the product ID of an SDP31; getPressureScale();                    *)
(* triggerMeasurement(false); readMeasurement(&pressure, NULL, NULL)       *)
(* answered with one word, over every two-byte payload.                    *)
(***************************************************************************)
ScriptInit == Init /\ comp = "MassFlow"

ScriptBegin ==
    /\ phase = "idle" /\ pc = 0
    /\ \E sn \in Serials :
        \E stream \in {Stream(InfoWords(SDP31_PID, sn), 2)} :
        \E rxb \in {Deliver(stream, Clean(2))} :
        \E r \in {begin(ZeroSlots, Accepted, Accepted, 6, rxb, buffer)} :
            /\ phase' = "returned"
            /\ pc' = 1
            /\ op' = [name |-> "begin", flag |-> FALSE, want |-> {}]
            /\ wire' = r.wire
            /\ acks' = r.acks
            /\ ret' = [ok |-> r.ok, value |-> 0]
            /\ sent' = stream
            /\ cor' = Clean(2)
            /\ rx' = rxb
            /\ loc' = r.loc
            /\ buffer' = r.buffer
            /\ number' = r.number
            /\ idScale' = IF r.ok /\ idScale = 0
                          THEN getPressureScale(r.number) ELSE idScale
            /\ UNCHANGED <<addr, comp, slot0, slot, calls, rxBuffer>>

ScriptScale ==
    /\ phase = "idle" /\ pc = 1
    /\ phase' = "returned"
    /\ pc' = 2
    /\ op' = [name |-> "getPressureScale", flag |-> FALSE, want |-> {}]
    /\ ret' = [ok |-> TRUE, value |-> getPressureScale(number)]
    /\ UNCHANGED <<driver, wire, acks, slot0, slot, sent, cor, rx, loc, idScale, calls, rxBuffer>>

ScriptTrigger ==
    /\ phase = "idle" /\ pc = 2
    /\ \E w \in WriteOutcomes :
        \E r \in {modeCommand(triggerMeasurementCmd(comp, FALSE), w.written, w.status)} :
            /\ phase' = "returned"
            /\ pc' = 3
            /\ op' = [name |-> "triggerMeasurement", flag |-> FALSE, want |-> {}]
            /\ wire' = r.wire
            /\ acks' = <<w>>
            /\ ret' = [ok |-> r.ok, value |-> 0]
            /\ UNCHANGED <<driver, slot0, slot, sent, cor, rx, loc, idScale, calls, rxBuffer>>

ScriptRead ==
    /\ phase = "idle" /\ pc = 3
    /\ \E hi \in Byte, lo \in Byte, s0 \in CallerSlots :
        \E stream \in {Stream(<< <<hi, lo>> >>, 1)} :
        \E rxb \in {Deliver(stream, Clean(1))} :
        \E r \in {readMeasurement(TRUE, FALSE, FALSE, s0, 3, rxb, buffer)} :
            /\ phase' = "returned"
            /\ pc' = 4
            /\ op' = [name |-> "readMeasurement", flag |-> FALSE, want |-> {"pressure"}]
            /\ wire' = r.wire
            /\ acks' = <<>>
            /\ ret' = [ok |-> r.ok, value |-> 0]
            /\ slot0' = s0
            /\ slot' = r.slots
            /\ sent' = stream
            /\ cor' = Clean(1)
            /\ rx' = rxb
            /\ loc' = r.loc
            /\ buffer' = r.buffer
            /\ UNCHANGED <<addr, comp, number, idScale, calls, rxBuffer>>

ScriptNext == ScriptBegin \/ ScriptScale \/ ScriptTrigger \/ ScriptRead \/ Return

SpecScript == ScriptInit /\ [][ScriptNext]_vars

(***************************************************************************)
(* readData itself, for every word count its parameter can hold.  The bus  *)
(* returns at most three bytes, and never more than were requested.        *)
(***************************************************************************)
ReadDataCall ==
    /\ phase = "idle"
    /\ \E words \in Byte \ {0} :
        \E n \in {requestCount(words)} :
        \E stream \in {Stream(<< <<190, 239>> >>, 1)} :
        \E k \in 0..(IF n < 3 THEN n ELSE 3) :
        \E rxb \in {Deliver(stream, Short(1, k))} :
        \E r \in {readData(words, k, rxb, buffer)} :
            /\ phase' = "returned"
            /\ op' = [name |-> "readData", flag |-> FALSE, want |-> {}]
            /\ wire' = r.wire
            /\ ret' = [ok |-> r.ok, value |-> 0]
            /\ sent' = stream
            /\ cor' = Short(1, k)
            /\ rx' = rxb
            /\ loc' = r.loc
            /\ buffer' = r.buffer
            /\ UNCHANGED <<addr, comp, number, acks, slot0, slot, idScale, pc, calls, rxBuffer>>

ReadDataNext == ReadDataCall \/ Return

SpecReadData == Init /\ [][ReadDataNext]_vars

(***************************************************************************)
(* Two callers of readMeasurement(&pressure, temp, NULL) on one instance,  *)
(* the main loop and an interrupt callback, each making one call, one step *)
(* per Wire call.  Wire keeps the bytes of the last requestFrom in one     *)
(* buffer; read() takes the next one and returns -1 when none is left.     *)
(***************************************************************************)
\* readMeasurement up to the requestFrom of readData: the word count, the
\* clear loop, the request and the comparison of the byte count
enterCall(temp, rxb, buf) ==
    LET words == measurementWords(temp, FALSE)
        st    == readStart(words, Len(rxb), buf)
    IN  [ call   |-> [ at    |-> "reading",
                       temp  |-> temp,
                       words |-> words,
                       read  |-> Len(rxb),
                       st    |-> local(st),
                       resp  |-> rxb,
                       got   |-> <<>>,
                       slots |-> ZeroSlots,
                       ok    |-> FALSE,
                       mixed |-> FALSE ],
          buffer |-> st.buffer ]

\* (uint8_t)Wire.read()
wireRead(q) == IF q = <<>> THEN 255 ELSE Head(q)

\* one turn of the read loop of a call in progress
readByte(c, b, buf) ==
    LET st == readStep(c.read, b, [c.st EXCEPT !.buffer = buf])
    IN  [ call   |-> [c EXCEPT !.read = c.read - 1,
                               !.st   = local(st),
                               !.got  = Append(c.got, b)],
          buffer |-> st.buffer ]

\* fault: the return value of readData not looked at
finishCallUnchecked(c, buf) ==
    [c EXCEPT !.at    = "done",
              !.ok    = TRUE,
              !.slots = unpackMeasurement(c.words, TRUE, c.temp, FALSE, c.slots, buf)]

\* readMeasurement after its readData returned: return false, or unpack the
\* buffer and return true
finishCall(c, buf) ==
    [c EXCEPT !.at    = "done",
              !.ok    = c.st.ok,
              !.slots = IF c.st.ok
                        THEN unpackMeasurement(c.words, TRUE, c.temp, FALSE, c.slots, buf)
                        ELSE c.slots]

\* a call in progress
Running(c) == calls[c].at = "reading"

\* calls after caller c took the step that leaves its call as call: the two
\* calls overlap when the other one is in progress
Stepped(c, call) ==
    [d \in Callers |->
        IF \E e \in Callers : e # c /\ Running(e)
        THEN [(IF d = c THEN call ELSE calls[d]) EXCEPT !.mixed = TRUE]
        ELSE IF d = c THEN call ELSE calls[d]]

\* what the sensor answers to each caller
OverlapReadings(c) ==
    IF c = "loop" THEN << <<18, 52>>, <<19, 136>> >> ELSE << <<255, 133>>, <<250, 36>> >>

OverlapInit ==
    /\ Init
    /\ addr = Address1 /\ comp = "MassFlow" /\ number = "Other" /\ buffer[0] = 0

OverlapEnter ==
    \E c \in Callers, temp \in BOOLEAN :
        /\ calls[c].at = "idle"
        /\ \E w \in {measurementWords(temp, FALSE)} :
           \E k \in {3 * w - 1, 3 * w} :
           \E rxb \in {Deliver(Stream(OverlapReadings(c), w), Short(w, k))} :
           \E r \in {enterCall(temp, rxb, buffer)} :
               /\ calls' = Stepped(c, r.call)
               /\ buffer' = r.buffer
               /\ rxBuffer' = rxb
        /\ UNCHANGED <<addr, comp, number, phase, op, wire, acks, ret, slot0, slot, sent,
                       cor, rx, loc, idScale, pc>>

OverlapRead ==
    \E c \in Callers :
        /\ Running(c) /\ calls[c].read > 0
        /\ \E r \in {readByte(calls[c], wireRead(rxBuffer), buffer)} :
               /\ calls' = Stepped(c, r.call)
               /\ buffer' = r.buffer
        /\ rxBuffer' = IF rxBuffer = <<>> THEN <<>> ELSE Tail(rxBuffer)
        /\ UNCHANGED <<addr, comp, number, phase, op, wire, acks, ret, slot0, slot, sent,
                       cor, rx, loc, idScale, pc>>

OverlapFinish ==
    \E c \in Callers :
        /\ Running(c) /\ calls[c].read = 0
        /\ calls' = Stepped(c, finishCall(calls[c], buffer))
        /\ UNCHANGED <<driver, phase, op, wire, acks, ret, slot0, slot, sent,
                       cor, rx, loc, idScale, pc, rxBuffer>>

OverlapNext == OverlapEnter \/ OverlapRead \/ OverlapFinish

SpecOverlap == OverlapInit /\ [][OverlapNext]_vars

(***************************************************************************)
(* Properties.                                                             *)
(***************************************************************************)
Returned(name) == phase = "returned" /\ op.name = name

\* the caller gave the pointer for this output variable
Asked(a) == a \in op.want

\* readData ran in the call that just returned
ReadRan == phase = "returned" /\ loc.words > 0

\* word i as received carries the CRC-8 of its two payload bytes
RxCrcOk(i) == SensorCRC(rx[3 * i - 2], rx[3 * i - 1]) = rx[3 * i]

\* some received byte differs from the byte sent
RxDiffers == \E j \in 1..Len(rx) : rx[j] # sent[j]

WriteAccepted(w) == w.written = 2 /\ w.status = 0

\* C1: readData returns success exactly when the bus returned 3 * words
\* bytes and every received word carries the CRC-8 of its two payload
\* bytes; a short read fails.
C1_ReadDataSuccessIff ==
    ReadRan =>
        (loc.ok <=> (Len(rx) = 3 * loc.words /\ \A i \in 1..loc.words : RxCrcOk(i)))

C1_Witness ==
    /\ ReadRan
    /\ loc.words = 2 /\ Len(rx) = 6
    /\ RxCrcOk(1) /\ ~RxCrcOk(2)
    /\ ~loc.ok

\* C2 as stated: whenever a received byte differs from the byte sent,
\* readData fails and the call returns failure.
C2_AnyBitErrorCaught ==
    (ReadRan /\ Len(rx) = Len(sent) /\ RxDiffers) => (~loc.ok /\ ~ret.ok)

\* C2, amended: whenever one, two or three bits of a word were inverted on
\* the bus, readData fails, the call returns failure and writes no output
\* variable.
C2_UpToThreeFlipsCaught ==
    (ReadRan /\ cor.word # 0 /\ Cardinality(cor.flips) <= 3) =>
        (~loc.ok /\ ~ret.ok /\ slot = slot0)

C2_Witness ==
    /\ Returned("readMeasurement")
    /\ loc.words = 3 /\ cor.word = 2 /\ Cardinality(cor.flips) = 3
    /\ RxDiffers
    /\ ~ret.ok

\* C3: a payload delivered with its correct CRC reads back with success and
\* lands in buffer[0], buffer[1] in wire order; the same triple with one
\* bit of the CRC byte inverted is refused.
C3_RoundTrip ==
    (Returned("readMeasurement") /\ loc.words = 1 /\ Len(rx) = 3) =>
        /\ rx = sent => (loc.ok /\ ret.ok /\ buffer[0] = sent[1] /\ buffer[1] = sent[2])
        /\ (Cardinality(cor.flips) = 1 /\ cor.flips \subseteq CrcBits) => (~loc.ok /\ ~ret.ok)

C3_Witness ==
    /\ Returned("readMeasurement")
    /\ rx = <<190, 239, 146>>
    /\ ret.ok
    /\ buffer[0] = 190 /\ buffer[1] = 239

\* C4: the CRC the driver reaches by table lookup over the two payload
\* bytes is the CRC-8 computed bit by bit (polynomial 0x31, initial value
\* 0xFF), and the table entry of a byte is its eight bitwise shifts.
C4_TableIsBitwiseCrc ==
    (Returned("readMeasurement") /\ Len(loc.crcs) = 1) =>
        /\ loc.crcs[1] = SensorCRC(rx[1], rx[2])
        /\ LUT(rx[1]) = Crc8Shift(rx[1], 8)

C4_Witness ==
    /\ Returned("readMeasurement")
    /\ rx[1] = 255 /\ rx[2] = 255
    /\ loc.crcs = <<172>>

\* C5: a command write succeeds exactly when the bus took 2 bytes and
\* endTransmission returned 0; a call built on command writes fails when
\* one of its writes did not.
C5_WriteCommandSuccessIff ==
    /\ (\/ Returned("startContinuous") \/ Returned("stopContinuous")
        \/ Returned("triggerMeasurement"))
        => (Len(acks) = 1 /\ (ret.ok <=> WriteAccepted(acks[1])))
    /\ (Returned("readProductID") \/ Returned("begin"))
        => ((\E i \in 1..Len(acks) : ~WriteAccepted(acks[i])) => ~ret.ok)

C5_Witness ==
    /\ Returned("stopContinuous")
    /\ acks[1].written = 2 /\ acks[1].status = 3
    /\ ~ret.ok

\* the wire table of the commands
TableBytes(name, c, flag) ==
    CASE name = "startContinuous" /\ c = "MassFlow" /\ flag      -> <<54, 3>>
      [] name = "startContinuous" /\ c = "MassFlow" /\ ~flag     -> <<54, 8>>
      [] name = "startContinuous" /\ c = "DiffPressure" /\ flag  -> <<54, 21>>
      [] name = "startContinuous" /\ c = "DiffPressure" /\ ~flag -> <<54, 30>>
      [] name = "triggerMeasurement" /\ c = "MassFlow" /\ ~flag  -> <<54, 36>>
      [] name = "triggerMeasurement" /\ c = "MassFlow" /\ flag   -> <<55, 38>>
      [] name = "triggerMeasurement" /\ c = "DiffPressure" /\ ~flag -> <<54, 47>>
      [] name = "triggerMeasurement" /\ c = "DiffPressure" /\ flag  -> <<55, 45>>

\* C6: startContinuous and triggerMeasurement write, for each compensation
\* mode and each averaging / stretching flag, exactly the two bytes of the
\* wire table, in one transaction to the driver's address.
C6_CommandSelection ==
    (Returned("startContinuous") \/ Returned("triggerMeasurement")) =>
        wire = << BeginTransmission(addr),
                  Write(TableBytes(op.name, comp, op.flag)),
                  EndTransmission >>

C6_Witness ==
    /\ Returned("triggerMeasurement")
    /\ comp = "DiffPressure" /\ op.flag
    /\ wire[1].addr = 35
    /\ wire[2].data = <<55, 45>>

\* the read requests among the Wire calls of the last call
Requests == {i \in 1..Len(wire) : wire[i].call = "requestFrom"}

\* C7: readMeasurement makes one read request, of 9 bytes when the scale
\* is asked for, else of 6 when the temperature is, else of 3.
C7_MeasurementRequest ==
    Returned("readMeasurement") =>
        /\ Requests = {1}
        /\ wire[1].addr = addr
        /\ "scale" \in op.want => wire[1].count = 9
        /\ ("scale" \notin op.want /\ "temp" \in op.want) => wire[1].count = 6
        /\ ("scale" \notin op.want /\ "temp" \notin op.want) => wire[1].count = 3

C7_Witness ==
    /\ Returned("readMeasurement")
    /\ Asked("pressure") /\ ~Asked("temp") /\ Asked("scale")
    /\ wire[1].count = 9

\* C8: after a successful readMeasurement every output variable asked for
\* holds the big-endian signed value of its word as received (pressure
\* bytes 0-1, temperature 2-3, scale 4-5 of the payload) and every other
\* output variable is as before.
C8_MeasurementUnpacked ==
    (Returned("readMeasurement") /\ ret.ok) =>
        /\ slot.pressure = IF "pressure" \in op.want
                           THEN BigEndian16(rx[1], rx[2]) ELSE slot0.pressure
        /\ slot.temp = IF "temp" \in op.want
                       THEN BigEndian16(rx[4], rx[5]) ELSE slot0.temp
        /\ slot.scale = IF "scale" \in op.want
                        THEN BigEndian16(rx[7], rx[8]) ELSE slot0.scale
        /\ slot.pid = slot0.pid /\ slot.serial = slot0.serial

C8_Witness ==
    /\ Returned("readMeasurement") /\ ret.ok
    /\ Asked("pressure") /\ ~Asked("temp") /\ Asked("scale")
    /\ slot0 = UsedSlots
    /\ slot.pressure = -123 /\ slot.scale = 240 /\ slot.temp = -1

\* C9: when readData fails inside readMeasurement, readMeasurement returns
\* failure and every output variable is as before.
C9_NoPartialResult ==
    (Returned("readMeasurement") /\ ~loc.ok) => (~ret.ok /\ slot = slot0)

C9_Witness ==
    /\ Returned("readMeasurement")
    /\ Asked("pressure") /\ Asked("temp") /\ Asked("scale")
    /\ Len(rx) = 6 /\ RxCrcOk(1) /\ RxCrcOk(2)
    /\ slot0 = UsedSlots /\ slot = UsedSlots
    /\ ~ret.ok

WriteOf(bytes) == <<BeginTransmission(addr), Write(bytes), EndTransmission>>

\* C10: readProductID writes 0x36 0x7C, then 0xE1 0x02, then makes its
\* read request; a refused first write ends the call with nothing more on
\* the bus, a refused second write ends it with no read request, and a
\* failed call writes neither output variable.
C10_ProductIDSteps ==
    Returned("readProductID") =>
        /\ SubSeq(wire, 1, 3) = WriteOf(<<54, 124>>)
        /\ ~WriteAccepted(acks[1]) => (wire = WriteOf(<<54, 124>>) /\ ~ret.ok)
        /\ WriteAccepted(acks[1]) =>
              /\ SubSeq(wire, 4, 6) = WriteOf(<<225, 2>>)
              /\ ~WriteAccepted(acks[2]) => (Len(wire) = 6 /\ ~ret.ok)
              /\ WriteAccepted(acks[2]) => Requests = {7}
        /\ ~ret.ok => slot = slot0

C10_Witness ==
    /\ Returned("readProductID")
    /\ WriteAccepted(acks[1]) /\ acks[2].status = 2
    /\ Len(wire) = 6
    /\ slot0 = UsedSlots /\ slot = UsedSlots
    /\ ~ret.ok

\* both command writes of the readProductID that just returned were taken
InfoRead ==
    /\ Returned("readProductID")
    /\ Len(acks) = 2 /\ WriteAccepted(acks[1]) /\ WriteAccepted(acks[2])

\* C11 as stated: after both info commands were written, readProductID
\* reads 2 words for the pid alone and 4 words with the serial.
C11_TwoOrFourWords ==
    InfoRead =>
        /\ loc.words = (IF "serial" \in op.want THEN 4 ELSE 2)
        /\ wire[7].count = 3 * loc.words

\* C11, amended: after both info commands were written, readProductID
\* reads 2 words for the pid alone and 6 words with the serial.
C11_TwoOrSixWords ==
    InfoRead =>
        /\ loc.words = (IF "serial" \in op.want THEN 6 ELSE 2)
        /\ wire[7] = RequestFrom(addr, 3 * loc.words)

C11_Witness ==
    /\ InfoRead
    /\ Asked("pid") /\ Asked("serial")
    /\ wire[7].count = 18 /\ Len(rx) = 18
    /\ ret.ok

\* C12: after a successful readProductID with the pid pointer given, the
\* pid variable holds the first four payload bytes of the response, most
\* significant first, with or without the serial.
C12_PidUnpacked ==
    (Returned("readProductID") /\ ret.ok) =>
        slot.pid = IF "pid" \in op.want THEN <<rx[1], rx[2], rx[4], rx[5]>> ELSE slot0.pid

C12_Witness ==
    /\ Returned("readProductID") /\ ret.ok
    /\ Asked("pid") /\ Asked("serial")
    /\ slot0 = UsedSlots
    /\ slot.pid = <<3, 1, 2, 136>>

\* C13: after a successful readProductID with the serial pointer given,
\* the serial variable holds payload bytes 4..11 of what the sensor sent,
\* most significant first, each from a word whose CRC was checked.
C13_SerialUnpacked ==
    (Returned("readProductID") /\ ret.ok /\ "serial" \in op.want) =>
        /\ Len(rx) = 18 /\ Len(loc.crcs) = 6
        /\ \A i \in 1..6 : RxCrcOk(i) /\ loc.crcs[i] = rx[3 * i]
        /\ slot.serial = <<sent[7], sent[8], sent[10], sent[11],
                           sent[13], sent[14], sent[16], sent[17]>>

C13_Witness ==
    /\ Returned("readProductID") /\ ret.ok
    /\ ~Asked("pid") /\ Asked("serial")
    /\ slot0 = UsedSlots
    /\ slot.serial = <<1, 35, 69, 103, 137, 171, 205, 239>>
    /\ slot.pid = slot0.pid

\* the product identifier in the bytes begin() was handed
RxPid == <<rx[1], rx[2], rx[4], rx[5]>>

\* the product-ID read of the begin() that just returned succeeded
BeginRead ==
    /\ Len(acks) = 2 /\ WriteAccepted(acks[1]) /\ WriteAccepted(acks[2])
    /\ loc.ok

\* C14: begin returns true exactly when its product-ID read succeeded and
\* the ID is 0x03010188 or 0x03010288; the first selects SDP31, the second
\* SDP32; getPressureScale returns 60 for SDP31 and 240 for SDP32.
C14_Identification ==
    /\ Returned("begin") =>
          /\ ret.ok <=> (BeginRead /\ (\/ RxPid = <<3, 1, 1, 136>>
                                       \/ RxPid = <<3, 1, 2, 136>>))
          /\ (ret.ok /\ RxPid = <<3, 1, 1, 136>>) => number = "SDP31"
          /\ (ret.ok /\ RxPid = <<3, 1, 2, 136>>) => number = "SDP32"
    /\ Returned("getPressureScale") =>
          /\ number = "SDP31" => ret.value = 60
          /\ number = "SDP32" => ret.value = 240

C14_Witness ==
    /\ Returned("begin")
    /\ BeginRead /\ RxPid = <<3, 1, 3, 136>>
    /\ ~ret.ok

\* C15 as stated: as long as no begin has returned true, getPressureScale
\* returns 1.
C15_FallbackWhileUndetermined ==
    (Returned("getPressureScale") /\ idScale = 0) => ret.value = 1

C17_ScaleNeverChanges ==
    (Returned("getPressureScale") /\ idScale # 0) => ret.value = idScale

\* C18 as stated: reset is one transaction to the driver's address with
\* the bytes 0x00 0x06, successful exactly when 2 bytes were taken and the
\* status is 0.
C18_ResetAsCommandWrite ==
    Returned("reset") =>
        /\ wire = WriteOf(<<0, 6>>)
        /\ ret.ok <=> WriteAccepted(acks[1])

\* C18, amended: reset is one transaction to the general-call address 0x00
\* with the single byte 0x06, successful exactly when 1 byte was taken and
\* the status is 0.
C18_ResetGeneralCall ==
    Returned("reset") =>
        /\ wire = <<BeginTransmission(0), Write(<<6>>), EndTransmission>>
        /\ Len(acks) = 1
        /\ ret.ok <=> (acks[1].written = 1 /\ acks[1].status = 0)

C18_Witness ==
    /\ Returned("reset")
    /\ addr = 34 /\ wire[1].addr = 0
    /\ acks[1].written = 1 /\ acks[1].status = 0
    /\ ret.ok

\* how many of the Wire calls of the last call are of one kind
Calls(kind) == Cardinality({i \in 1..Len(wire) : wire[i].call = kind})

\* C19: one call of startContinuous, stopContinuous, triggerMeasurement or
\* reset makes one write transaction, accepted or not; one readMeasurement
\* makes one read request and no write; one readProductID makes at most
\* two write transactions and at most one read request.
C19_NoRetry ==
    /\ (\/ Returned("startContinuous") \/ Returned("stopContinuous")
        \/ Returned("triggerMeasurement") \/ Returned("reset")) =>
          /\ Calls("beginTransmission") = 1 /\ Calls("write") = 1
          /\ Calls("endTransmission") = 1 /\ Calls("requestFrom") = 0
    /\ Returned("readMeasurement") =>
          /\ Calls("requestFrom") = 1
          /\ Calls("beginTransmission") = 0 /\ Calls("write") = 0
    /\ Returned("readProductID") =>
          /\ Calls("beginTransmission") <= 2 /\ Calls("write") <= 2
          /\ Calls("endTransmission") <= 2 /\ Calls("requestFrom") <= 1

C19_Witness ==
    /\ Returned("triggerMeasurement")
    /\ acks[1].status = 2
    /\ ~ret.ok
    /\ Len(wire) = 3

\* C20: on a driver constructed with MassFlow, begin answered with the ID
\* 0x03010188 returns true and the pressure scale is then 60; the
\* triggerMeasurement(false) that follows writes 0x36 0x24; the
\* readMeasurement of the pressure alone that follows, answered with any
\* word and its CRC, returns true with that word as big-endian signed value.
C20_EndToEnd ==
    phase = "returned" =>
        /\ pc = 1 => (ret.ok /\ number = "SDP31")
        /\ pc = 2 => ret.value = 60
        /\ pc = 3 => wire = WriteOf(<<54, 36>>)
        /\ pc = 4 => /\ ret.ok
                     /\ Len(sent) = 3
                     /\ slot.pressure = BigEndian16(sent[1], sent[2])
                     /\ slot.temp = slot0.temp /\ slot.scale = slot0.scale

C20_Witness ==
    /\ phase = "returned" /\ pc = 4
    /\ idScale = 60
    /\ sent[1] = 255 /\ sent[2] = 133
    /\ ret.ok /\ slot.pressure = -123

\* C21: readData calls Wire.read once for each byte the bus reported, also
\* when they are fewer than requested or not a multiple of 3.
C21_BusDrained ==
    ReadRan =>
        /\ Calls("read") = cor.k
        /\ Calls("requestFrom") = 1

C21_Witness ==
    /\ ReadRan
    /\ loc.words = 2 /\ cor.k = 4
    /\ Calls("read") = 4
    /\ ~ret.ok

\* C22: in a full-length read the CRC checked for each word is the CRC-8,
\* from 0xFF, of the two payload bytes of that word alone, whatever the
\* words before it were.
C22_CrcPerWord ==
    (ReadRan /\ Len(rx) = 3 * loc.words) =>
        /\ Len(loc.crcs) = loc.words
        /\ \A i \in 1..loc.words : loc.crcs[i] = SensorCRC(rx[3 * i - 2], rx[3 * i - 1])

C22_Witness ==
    /\ ReadRan
    /\ loc.words = 3 /\ Len(rx) = 9
    /\ cor.word = 1 /\ ~RxCrcOk(1)
    /\ RxCrcOk(2) /\ loc.crcs[2] = rx[6]
    /\ RxCrcOk(3) /\ loc.crcs[3] = rx[9]

\* payload byte j (from 0) of the bytes received
RxPayload(j) == rx[3 * (j \div 2) + (j % 2) + 1]

\* C23 as stated: after a successful readData of n words, buffer[0..2n-1]
\* are the payload bytes in wire order and the buffer from 2n on holds no
\* received byte.
C23_OnlyPayloadStored ==
    (ReadRan /\ loc.ok) =>
        /\ \A j \in 0..(2 * loc.words - 1) : buffer[j] = RxPayload(j)
        /\ \A j \in (2 * loc.words)..(BufferSize - 1) : buffer[j] = 0

\* C23, amended: after a successful readData of n words, buffer[0..2n-1]
\* are the payload bytes in wire order, buffer[2n] is the CRC byte of the
\* last word, and the buffer after 2n is zero.
C23_PayloadThenLastCrc ==
    (ReadRan /\ loc.ok) =>
        /\ \A j \in 0..(2 * loc.words - 1) : buffer[j] = RxPayload(j)
        /\ buffer[2 * loc.words] = rx[3 * loc.words]
        /\ \A j \in (2 * loc.words + 1)..(BufferSize - 1) : buffer[j] = 0

C23_Witness ==
    /\ ReadRan /\ loc.ok
    /\ loc.words = 6
    /\ buffer[11] = rx[17]
    /\ buffer[12] = rx[18] /\ rx[18] # 0

ModeCommandReturned ==
    \/ Returned("startContinuous")
    \/ Returned("stopContinuous")
    \/ Returned("triggerMeasurement")

\* C25 as stated: as long as no begin has returned true, startContinuous,
\* stopContinuous and triggerMeasurement write nothing to the bus.
C25_ModeCommandsAfterIdentification ==
    (ModeCommandReturned /\ idScale = 0) => Calls("write") = 0

\* C27: in every read a public call makes, whatever the number of bytes
\* the bus returns, no byte is stored outside buffer[0..12], and the
\* unpacking reads inside it.
C27_BufferBounds ==
    ReadRan =>
        /\ ~loc.oob
        /\ 2 * loc.words <= BufferSize - 1
        /\ Len(rx) <= 3 * loc.words

C27_Witness ==
    /\ ReadRan
    /\ loc.words = 6 /\ Len(rx) = 18
    /\ ~loc.oob
    /\ ret.ok

\* the write transactions open after the first i Wire calls of the call
OpenAfter(i) ==
    Cardinality({j \in 1..i : wire[j].call = "beginTransmission"})
        - Cardinality({j \in 1..i : wire[j].call = "endTransmission"})

\* C28: every beginTransmission is followed by one endTransmission before
\* the call returns, whatever Wire.write took, and no beginTransmission or
\* requestFrom is made while a transaction is open.
C28_TransactionsClosed ==
    phase = "returned" =>
        /\ OpenAfter(Len(wire)) = 0
        /\ \A i \in 1..Len(wire) :
              /\ OpenAfter(i) >= 0 /\ OpenAfter(i) <= 1
              /\ wire[i].call = "beginTransmission" => OpenAfter(i - 1) = 0
              /\ wire[i].call = "requestFrom" => OpenAfter(i - 1) = 0
              /\ wire[i].call = "read" => OpenAfter(i - 1) = 0
              /\ wire[i].call = "write" => OpenAfter(i - 1) = 1

C28_Witness ==
    /\ Returned("readProductID")
    /\ acks[1].written = 1
    /\ Len(wire) = 3
    /\ wire[3].call = "endTransmission"

\* the caller's variables with every bit set or at the ends of int16_t
FullSlots ==
    [pressure |-> -1, temp |-> -32768, scale |-> 32767,
     pid |-> <<255, 255, 255, 255>>,
     serial |-> <<255, 255, 255, 255, 255, 255, 255, 255>>]

\* the output variables asked for agree in s and t
SameAsked(s, t) ==
    /\ Asked("pressure") => s.pressure = t.pressure
    /\ Asked("temp") => s.temp = t.temp
    /\ Asked("scale") => s.scale = t.scale
    /\ Asked("pid") => s.pid = t.pid
    /\ Asked("serial") => s.serial = t.serial

\* the call that returned leaves the same in the variables asked for when
\* they hold s before
SameFrom(s) ==
    /\ Returned("readMeasurement") =>
          SameAsked(slot, unpackMeasurement(loc.words, Asked("pressure"), Asked("temp"),
                                            Asked("scale"), s, buffer))
    /\ Returned("readProductID") =>
          SameAsked(slot, unpackProductID(loc.words, Asked("pid"), Asked("serial"),
                                          s, buffer))

\* C29: what a successful call leaves in an output variable asked for is
\* what the same call, answered the same, would have left there had the
\* variable held anything else before.
C29_OldValueShiftedOut ==
    ret.ok => SameFrom(ZeroSlots) /\ SameFrom(UsedSlots) /\ SameFrom(FullSlots)

C29_Witness ==
    /\ Returned("readMeasurement") /\ ret.ok
    /\ Asked("pressure") /\ Asked("temp") /\ Asked("scale")
    /\ slot0 = UsedSlots
    /\ slot.temp = -1500

\* C30: number changes only in a begin that returns true; addr and comp
\* never change.
C30_DriverFrame ==
    [][ /\ number' # number => (op'.name = "begin" /\ ret'.ok)
        /\ addr' = addr
        /\ comp' = comp ]_vars

C30_Witness ==
    /\ Returned("begin")
    /\ ~ret.ok /\ BeginRead /\ RxPid = <<3, 1, 3, 136>>
    /\ idScale = 240 /\ number = "SDP32"

\* the readMeasurement of caller c returned true
Succeeded(c) == calls[c].at = "done" /\ calls[c].ok

\* what caller c was given is the payload of the answer to its request
GivenPayload(c) ==
    /\ Len(calls[c].resp) = 3 * calls[c].words
    /\ calls[c].slots.pressure = BigEndian16(calls[c].resp[1], calls[c].resp[2])
    /\ calls[c].temp =>
           calls[c].slots.temp = BigEndian16(calls[c].resp[4], calls[c].resp[5])

\* C26: a readMeasurement that no other call on the instance overlapped
\* and that returned true gave its caller the payload of the answer to its
\* own request; of two calls that overlap, one can return true with another
\* value (the state of the witness).
C26_AloneIsRight ==
    \A c \in Callers : (Succeeded(c) /\ ~calls[c].mixed) => GivenPayload(c)

C26_Witness ==
    /\ Succeeded("loop") /\ calls["loop"].mixed
    /\ calls["loop"].got = calls["loop"].resp
    /\ calls["loop"].slots.pressure = BigEndian16(255, 133)
    /\ ~GivenPayload("loop")

====
